---- MODULE Spec2Model ----
(***************************************************************************)
(* The Bar gadget of src/constraint_system/zelbet.rs: mixed-radix          *)
(* decomposition of a BLS12-381 scalar into 27 digits, per-digit S-box and *)
(* Horner recomposition, with the witnesses and gates it adds to the       *)
(* StandardComposer.                                                       *)
(*                                                                         *)
(* A 256-bit quantity (the four u64 limbs of a BlsScalar or of a u256) is   *)
(* a tuple of 32 bytes, least significant first: TLC's integers are 32 bit. *)
(* A BlsScalar is its limbs, i.e. the Montgomery form a*R mod p, R = 2^256.*)
(***************************************************************************)
EXTENDS Integers, Sequences, FiniteSets, Bags, TLC

\* ------------------------------------------------------------------------
\* Representation of u256 / BlsScalar limbs
\* ------------------------------------------------------------------------

\* radix of one stored digit of a 256-bit quantity
B == 256

\* number of such digits in 256 bits
NB == 32

\* the scalar field's prime p (dusk_bls12_381 MODULUS), as bytes
MODULUS ==
  <<1, 0, 0, 0, 255, 255, 255, 255, 254, 91, 254, 255, 2, 164, 189, 83, 5, 216, 161, 9, 8, 216, 57, 51, 72, 125, 157, 41, 83, 167, 237, 115>>

\* -p^(-1) mod B (dusk_bls12_381 INV, cut to one byte)
INV == 255

\* R = 2^256 mod p: the limbs of BlsScalar::one()
R ==
  <<254, 255, 255, 255, 1, 0, 0, 0, 2, 72, 3, 0, 250, 183, 132, 88, 245, 79, 188, 236, 239, 79, 140, 153, 111, 5, 197, 172, 89, 177, 36, 24>>

\* R^2 mod p: the multiplier of BlsScalar::from_raw
R2 ==
  <<109, 156, 242, 243, 144, 233, 153, 201, 35, 92, 146, 135, 203, 237, 108, 43, 143, 57, 84, 114, 150, 20, 211, 5, 17, 255, 89, 159, 217, 217, 72, 7>>

\* the eight bytes of one u64 limb below 2^31
Limb(n) ==
  <<n % B, (n \div B) % B, (n \div (B * B)) % B, n \div (B * B * B),
    0, 0, 0, 0>>

\* u256([l0, l1, l2, l3]) for limbs below 2^31
U256(l) == Limb(l[1]) \o Limb(l[2]) \o Limb(l[3]) \o Limb(l[4])

\* u256 of a small integer (one limb)
Small(n) == U256(<<n, 0, 0, 0>>)

Zero == Small(0)

\* a u256 known to be below 2^24, as an integer (u256::as_u32 / .0[0])
AsInt(a) == a[1] + B * a[2] + B * B * a[3]

\* a u256 is below the integer n (n < 2^24)
IsBelow(a, n) == (\A i \in 4..Len(a) : a[i] = 0) /\ AsInt(a) < n

\* the element of a one-element set
Only(S) == CHOOSE y \in S : TRUE

\* Op(a) with the argument made a value first: TLC evaluates an operator's
\* argument where it is used, each time it is used
Bind(Op(_), a) == Only({Op(v) : v \in {a}})

\* Op(a, b) with both arguments made values first
Strict(Op(_, _), a, b) == Only({Op(u, v) : u \in {a}, v \in {b}})

RECURSIVE FoldRange(_, _, _, _)
\* Op(... Op(Op(s, lo), lo + 1) ..., hi): the left fold of Op over lo..hi.
\* The range is split in halves and the left half's result is a value
\* before the right half starts, which keeps TLC's evaluation depth
\* logarithmic in hi - lo.
FoldRange(Op(_, _), s, lo, hi) ==
  IF lo > hi THEN s
  ELSE IF lo = hi THEN Op(s, lo)
  ELSE Bind(LAMBDA mid :
              Bind(LAMBDA t : FoldRange(Op, t, mid + 1, hi),
                   FoldRange(Op, s, lo, mid)),
            (lo + hi) \div 2)

\* a >= b on byte tuples of equal length (both values)
Geq(a, b) ==
  \/ a = b
  \/ \E i \in 1..Len(a) :
       /\ a[i] > b[i]
       /\ \A j \in (i + 1)..Len(a) : a[j] = b[j]

\* one byte of a subtraction: s = <<bytes so far, borrow>>, d = the raw
\* difference at this byte
SubByte(s, d) ==
  <<Append(s[1], IF d < 0 THEN d + B ELSE d), IF d < 0 THEN 1 ELSE 0>>

\* a - b, folding <<bytes, borrow>> from the low byte up
SubBytes(a, b) ==
  FoldRange(LAMBDA s, i : Bind(LAMBDA d : SubByte(s, d), a[i] - b[i] - s[2]),
            <<<<>>, 0>>, 1, Len(a))[1]

\* a - b on byte tuples of equal length, a >= b
USub(a, b) == Strict(SubBytes, a, b)

\* a + b, folding <<bytes, carry>> from the low byte up; the carry is the
\* last byte of the result
AddBytes(a, b) ==
  Bind(LAMBDA r : Append(r[1], r[2]),
       FoldRange(LAMBDA s, i :
                   Bind(LAMBDA d : <<Append(s[1], d % B), d \div B>>,
                        a[i] + b[i] + s[2]),
                 <<<<>>, 0>>, 1, Len(a)))

\* a + b on byte tuples of equal length; one byte longer (the carry)
UAdd(a, b) == Strict(AddBytes, a, b)

\* a as a number modulo the integer m < 2^22: long division, top byte first
RemInt(a, m) ==
  FoldRange(LAMBDA r, i : (r * B + a[Len(a) + 1 - i]) % m, 0, 1, Len(a))

\* u256 % u256 for a divisor below 2^22 (every radix of the table is)
URem(a, b) == Bind(Small, Strict(RemInt, a, AsInt(b)))

\* ------------------------------------------------------------------------
\* BlsScalar arithmetic (dusk_bls12_381::BlsScalar), on limbs
\* ------------------------------------------------------------------------

\* sum of a[i] * b[c - i] for i in lo..hi: the size of the bag holding i that
\* many times (and once more, a bag's counts being positive)
SumTerms(a, b, c, lo, hi) ==
  IF lo > hi THEN 0
  ELSE BagCardinality([i \in lo..hi |-> a[i] * b[c - i] + 1]) - (hi - lo + 1)

\* column c of the schoolbook product of two 32-byte numbers, unnormalised
Column(a, b, c) ==
  IF c > 2 * NB - 1 THEN 0
  ELSE SumTerms(a, b, c + 1, IF c + 1 - NB > 1 THEN c + 1 - NB ELSE 1,
                IF c < NB THEN c ELSE NB)

\* round i of the reduction: s = <<multipliers so far, carry>>, v = column i
\* of a * b + u * p with the carry; the new multiplier clears its low byte
RedRound(s, v) ==
  Bind(LAMBDA ui : <<Append(s[1], ui), (v + ui * MODULUS[1]) \div B>>,
       ((v % B) * INV) % B)

\* rounds 1..NB of the Montgomery reduction of a * b: <<the multipliers u of
\* p, the carry into column NB + 1>>
RedLow(a, b) ==
  FoldRange(LAMBDA s, i :
              Bind(LAMBDA v : RedRound(s, v),
                   Column(a, b, i) + s[2]
                   + SumTerms(s[1], MODULUS, i + 1, 1, i - 1)),
            <<<<>>, 0>>, 1, NB)

\* columns NB + 1 .. 2 * NB of a * b + u * p: <<their bytes, the carry out>>
RedHigh(a, b, lo) ==
  FoldRange(LAMBDA s, i :
              Bind(LAMBDA v : <<Append(s[1], v % B), v \div B>>,
                   Column(a, b, i) + s[2]
                   + SumTerms(lo[1], MODULUS, i + 1, i - NB + 1, NB)),
            <<<<>>, lo[2]>>, NB + 1, 2 * NB)

\* the final conditional subtraction: hi = <<bytes, carry>> of (t + u*p) / R
RedFinal(hi) ==
  IF hi[2] > 0 \/ Geq(hi[1], MODULUS) THEN SubBytes(hi[1], MODULUS)
  ELSE hi[1]

\* a * b * R^(-1) mod p for a * b < p * R (Scalar::montgomery_reduce on the
\* product's limbs); a and b are values
montgomery_reduce(a, b) ==
  Bind(RedFinal, Bind(LAMBDA lo : RedHigh(a, b, lo), RedLow(a, b)))

\* BlsScalar * BlsScalar: limbs a * b * R^(-1) mod p
mul(a, b) == Strict(montgomery_reduce, a, b)

\* (a + b) mod p from the 33-byte sum s
AddFinal(s) ==
  SubSeq(IF Geq(s, Append(MODULUS, 0)) THEN SubBytes(s, Append(MODULUS, 0))
         ELSE s, 1, NB)

\* BlsScalar + BlsScalar: limbs (a + b) mod p
add(a, b) == Bind(AddFinal, UAdd(a, b))

\* (p - a) mod p for a value a
NegValue(a) == IF a = Zero THEN Zero ELSE SubBytes(MODULUS, a)

\* -BlsScalar: limbs (p - a) mod p
neg(a) == Bind(NegValue, a)

\* BlsScalar::reduce: the scalar whose limbs are the canonical value
reduce(a) == Strict(montgomery_reduce, a, Small(1))

\* BlsScalar::from_raw: the scalar whose canonical value is val
from_raw(val) == mul(val, R2)

\* BlsScalar::one() and BlsScalar::zero()
one == R

\* ------------------------------------------------------------------------
\* Domain parameter tables
\* ------------------------------------------------------------------------

\* the 27 radix moduli, as BlsScalar limb arrays
DECOMPOSITION_S_I ==
  << <<693, 0, 0, 0>>,
     <<696, 0, 0, 0>>,
     <<694, 0, 0, 0>>,
     <<668, 0, 0, 0>>,
     <<679, 0, 0, 0>>,
     <<695, 0, 0, 0>>,
     <<691, 0, 0, 0>>,
     <<693, 0, 0, 0>>,
     <<700, 0, 0, 0>>,
     <<688, 0, 0, 0>>,
     <<700, 0, 0, 0>>,
     <<694, 0, 0, 0>>,
     <<701, 0, 0, 0>>,
     <<694, 0, 0, 0>>,
     <<699, 0, 0, 0>>,
     <<701, 0, 0, 0>>,
     <<701, 0, 0, 0>>,
     <<701, 0, 0, 0>>,
     <<695, 0, 0, 0>>,
     <<698, 0, 0, 0>>,
     <<697, 0, 0, 0>>,
     <<703, 0, 0, 0>>,
     <<702, 0, 0, 0>>,
     <<691, 0, 0, 0>>,
     <<688, 0, 0, 0>>,
     <<703, 0, 0, 0>>,
     <<679, 0, 0, 0>> >>

\* the 27 inverses, Montgomery form; each limb array written as its bytes
INVERSES_S_I ==
  << <<254, 231, 220, 66, 1, 82, 218, 141, 130, 244, 252, 115, 104, 17, 187, 138, 115, 241, 123, 213, 203, 169, 69, 175, 178, 225, 195, 63, 125, 166, 28, 111>>,
     <<15, 253, 102, 235, 193, 114, 79, 35, 29, 94, 161, 223, 153, 176, 95, 59, 119, 144, 43, 238, 72, 0, 202, 164, 179, 153, 27, 209, 232, 56, 174, 33>>,
     <<133, 119, 122, 46, 142, 26, 84, 10, 241, 116, 43, 185, 174, 41, 76, 176, 205, 8, 61, 225, 169, 228, 151, 179, 178, 79, 109, 252, 236, 142, 157, 109>>,
     <<23, 167, 53, 219, 16, 3, 210, 177, 125, 230, 88, 202, 105, 137, 252, 185, 148, 177, 34, 213, 59, 231, 165, 225, 67, 71, 249, 33, 123, 209, 19, 1>>,
     <<211, 199, 98, 118, 247, 249, 111, 81, 197, 192, 190, 115, 228, 232, 199, 193, 203, 201, 31, 55, 4, 126, 118, 38, 37, 91, 240, 163, 193, 81, 140, 28>>,
     <<18, 183, 105, 39, 1, 221, 152, 167, 125, 23, 208, 120, 62, 12, 193, 48, 2, 76, 181, 112, 176, 128, 124, 76, 0, 116, 211, 58, 152, 176, 25, 80>>,
     <<217, 104, 7, 100, 109, 77, 149, 95, 49, 31, 87, 166, 208, 234, 11, 147, 41, 155, 218, 175, 186, 170, 132, 69, 119, 78, 124, 124, 131, 46, 177, 74>>,
     <<254, 231, 220, 66, 1, 82, 218, 141, 130, 244, 252, 115, 104, 17, 187, 138, 115, 241, 123, 213, 203, 169, 69, 175, 178, 225, 195, 63, 125, 166, 28, 111>>,
     <<151, 55, 70, 48, 58, 168, 131, 58, 17, 144, 192, 68, 68, 138, 149, 113, 190, 153, 96, 13, 143, 200, 40, 116, 124, 112, 124, 193, 0, 15, 32, 38>>,
     <<197, 29, 113, 71, 23, 244, 5, 125, 124, 13, 136, 59, 49, 28, 143, 74, 74, 20, 21, 142, 99, 8, 19, 69, 211, 90, 197, 212, 127, 89, 97, 62>>,
     <<151, 55, 70, 48, 58, 168, 131, 58, 17, 144, 192, 68, 68, 138, 149, 113, 190, 153, 96, 13, 143, 200, 40, 116, 124, 112, 124, 193, 0, 15, 32, 38>>,
     <<133, 119, 122, 46, 142, 26, 84, 10, 241, 116, 43, 185, 174, 41, 76, 176, 205, 8, 61, 225, 169, 228, 151, 179, 178, 79, 109, 252, 236, 142, 157, 109>>,
     <<115, 211, 1, 23, 226, 143, 174, 202, 134, 101, 39, 101, 32, 93, 20, 206, 134, 21, 51, 211, 168, 221, 135, 107, 175, 132, 198, 103, 248, 51, 231, 80>>,
     <<133, 119, 122, 46, 142, 26, 84, 10, 241, 116, 43, 185, 174, 41, 76, 176, 205, 8, 61, 225, 169, 228, 151, 179, 178, 79, 109, 252, 236, 142, 157, 109>>,
     <<116, 12, 186, 204, 111, 138, 50, 2, 218, 244, 29, 183, 192, 236, 90, 165, 18, 195, 242, 180, 219, 10, 199, 13, 160, 36, 140, 163, 188, 186, 139, 31>>,
     <<115, 211, 1, 23, 226, 143, 174, 202, 134, 101, 39, 101, 32, 93, 20, 206, 134, 21, 51, 211, 168, 221, 135, 107, 175, 132, 198, 103, 248, 51, 231, 80>>,
     <<115, 211, 1, 23, 226, 143, 174, 202, 134, 101, 39, 101, 32, 93, 20, 206, 134, 21, 51, 211, 168, 221, 135, 107, 175, 132, 198, 103, 248, 51, 231, 80>>,
     <<115, 211, 1, 23, 226, 143, 174, 202, 134, 101, 39, 101, 32, 93, 20, 206, 134, 21, 51, 211, 168, 221, 135, 107, 175, 132, 198, 103, 248, 51, 231, 80>>,
     <<18, 183, 105, 39, 1, 221, 152, 167, 125, 23, 208, 120, 62, 12, 193, 48, 2, 76, 181, 112, 176, 128, 124, 76, 0, 116, 211, 58, 152, 176, 25, 80>>,
     <<83, 208, 52, 24, 24, 118, 235, 203, 159, 61, 104, 48, 207, 41, 155, 156, 166, 135, 115, 172, 56, 244, 23, 19, 237, 215, 89, 194, 60, 150, 91, 98>>,
     <<155, 179, 79, 223, 5, 231, 99, 112, 163, 6, 237, 193, 65, 28, 16, 117, 205, 78, 159, 245, 45, 43, 144, 35, 131, 179, 85, 57, 63, 5, 114, 43>>,
     <<106, 99, 209, 127, 53, 211, 68, 125, 238, 231, 97, 205, 114, 99, 133, 60, 241, 134, 10, 9, 104, 77, 220, 118, 146, 78, 143, 118, 32, 248, 253, 3>>,
     <<83, 209, 191, 167, 211, 67, 61, 212, 240, 63, 168, 232, 216, 243, 50, 215, 3, 105, 54, 20, 44, 126, 123, 36, 193, 246, 21, 235, 106, 117, 18, 68>>,
     <<217, 104, 7, 100, 109, 77, 149, 95, 49, 31, 87, 166, 208, 234, 11, 147, 41, 155, 218, 175, 186, 170, 132, 69, 119, 78, 124, 124, 131, 46, 177, 74>>,
     <<197, 29, 113, 71, 23, 244, 5, 125, 124, 13, 136, 59, 49, 28, 143, 74, 74, 20, 21, 142, 99, 8, 19, 69, 211, 90, 197, 212, 127, 89, 97, 62>>,
     <<106, 99, 209, 127, 53, 211, 68, 125, 238, 231, 97, 205, 114, 99, 133, 60, 241, 134, 10, 9, 104, 77, 220, 118, 146, 78, 143, 118, 32, 248, 253, 3>>,
     <<211, 199, 98, 118, 247, 249, 111, 81, 197, 192, 190, 115, 228, 232, 199, 193, 203, 201, 31, 55, 4, 126, 118, 38, 37, 91, 240, 163, 193, 81, 140, 28>> >>

\* the 659-entry substitution table, as u256 limb arrays
SBOX_BLS ==
  << <<15, 0, 0, 0>>, <<187, 0, 0, 0>>, <<186, 0, 0, 0>>, <<168, 0, 0, 0>>, <<493, 0, 0, 0>>, <<102, 0, 0, 0>>,
     <<296, 0, 0, 0>>, <<11, 0, 0, 0>>, <<164, 0, 0, 0>>, <<155, 0, 0, 0>>, <<527, 0, 0, 0>>, <<103, 0, 0, 0>>,
     <<192, 0, 0, 0>>, <<589, 0, 0, 0>>, <<543, 0, 0, 0>>, <<450, 0, 0, 0>>, <<647, 0, 0, 0>>, <<72, 0, 0, 0>>,
     <<343, 0, 0, 0>>, <<386, 0, 0, 0>>, <<279, 0, 0, 0>>, <<616, 0, 0, 0>>, <<225, 0, 0, 0>>, <<140, 0, 0, 0>>,
     <<313, 0, 0, 0>>, <<586, 0, 0, 0>>, <<276, 0, 0, 0>>, <<57, 0, 0, 0>>, <<162, 0, 0, 0>>, <<68, 0, 0, 0>>,
     <<179, 0, 0, 0>>, <<445, 0, 0, 0>>, <<418, 0, 0, 0>>, <<364, 0, 0, 0>>, <<46, 0, 0, 0>>, <<591, 0, 0, 0>>,
     <<541, 0, 0, 0>>, <<218, 0, 0, 0>>, <<0, 0, 0, 0>>, <<437, 0, 0, 0>>, <<618, 0, 0, 0>>, <<157, 0, 0, 0>>,
     <<657, 0, 0, 0>>, <<49, 0, 0, 0>>, <<120, 0, 0, 0>>, <<469, 0, 0, 0>>, <<142, 0, 0, 0>>, <<325, 0, 0, 0>>,
     <<183, 0, 0, 0>>, <<123, 0, 0, 0>>, <<23, 0, 0, 0>>, <<468, 0, 0, 0>>, <<619, 0, 0, 0>>, <<217, 0, 0, 0>>,
     <<472, 0, 0, 0>>, <<226, 0, 0, 0>>, <<212, 0, 0, 0>>, <<406, 0, 0, 0>>, <<4, 0, 0, 0>>, <<499, 0, 0, 0>>,
     <<182, 0, 0, 0>>, <<51, 0, 0, 0>>, <<141, 0, 0, 0>>, <<86, 0, 0, 0>>, <<596, 0, 0, 0>>, <<70, 0, 0, 0>>,
     <<149, 0, 0, 0>>, <<355, 0, 0, 0>>, <<351, 0, 0, 0>>, <<245, 0, 0, 0>>, <<52, 0, 0, 0>>, <<193, 0, 0, 0>>,
     <<311, 0, 0, 0>>, <<244, 0, 0, 0>>, <<375, 0, 0, 0>>, <<300, 0, 0, 0>>, <<399, 0, 0, 0>>, <<590, 0, 0, 0>>,
     <<143, 0, 0, 0>>, <<24, 0, 0, 0>>, <<190, 0, 0, 0>>, <<517, 0, 0, 0>>, <<208, 0, 0, 0>>, <<539, 0, 0, 0>>,
     <<544, 0, 0, 0>>, <<236, 0, 0, 0>>, <<393, 0, 0, 0>>, <<34, 0, 0, 0>>, <<203, 0, 0, 0>>, <<60, 0, 0, 0>>,
     <<151, 0, 0, 0>>, <<243, 0, 0, 0>>, <<542, 0, 0, 0>>, <<299, 0, 0, 0>>, <<368, 0, 0, 0>>, <<289, 0, 0, 0>>,
     <<272, 0, 0, 0>>, <<567, 0, 0, 0>>, <<280, 0, 0, 0>>, <<599, 0, 0, 0>>, <<625, 0, 0, 0>>, <<341, 0, 0, 0>>,
     <<462, 0, 0, 0>>, <<509, 0, 0, 0>>, <<153, 0, 0, 0>>, <<374, 0, 0, 0>>, <<213, 0, 0, 0>>, <<477, 0, 0, 0>>,
     <<310, 0, 0, 0>>, <<347, 0, 0, 0>>, <<572, 0, 0, 0>>, <<71, 0, 0, 0>>, <<579, 0, 0, 0>>, <<158, 0, 0, 0>>,
     <<412, 0, 0, 0>>, <<587, 0, 0, 0>>, <<63, 0, 0, 0>>, <<172, 0, 0, 0>>, <<640, 0, 0, 0>>, <<173, 0, 0, 0>>,
     <<101, 0, 0, 0>>, <<439, 0, 0, 0>>, <<5, 0, 0, 0>>, <<92, 0, 0, 0>>, <<501, 0, 0, 0>>, <<500, 0, 0, 0>>,
     <<330, 0, 0, 0>>, <<633, 0, 0, 0>>, <<630, 0, 0, 0>>, <<328, 0, 0, 0>>, <<488, 0, 0, 0>>, <<356, 0, 0, 0>>,
     <<89, 0, 0, 0>>, <<224, 0, 0, 0>>, <<383, 0, 0, 0>>, <<96, 0, 0, 0>>, <<643, 0, 0, 0>>, <<585, 0, 0, 0>>,
     <<422, 0, 0, 0>>, <<41, 0, 0, 0>>, <<295, 0, 0, 0>>, <<642, 0, 0, 0>>, <<571, 0, 0, 0>>, <<247, 0, 0, 0>>,
     <<239, 0, 0, 0>>, <<600, 0, 0, 0>>, <<561, 0, 0, 0>>, <<319, 0, 0, 0>>, <<480, 0, 0, 0>>, <<570, 0, 0, 0>>,
     <<652, 0, 0, 0>>, <<134, 0, 0, 0>>, <<620, 0, 0, 0>>, <<484, 0, 0, 0>>, <<525, 0, 0, 0>>, <<333, 0, 0, 0>>,
     <<177, 0, 0, 0>>, <<209, 0, 0, 0>>, <<8, 0, 0, 0>>, <<211, 0, 0, 0>>, <<402, 0, 0, 0>>, <<478, 0, 0, 0>>,
     <<574, 0, 0, 0>>, <<148, 0, 0, 0>>, <<365, 0, 0, 0>>, <<83, 0, 0, 0>>, <<635, 0, 0, 0>>, <<44, 0, 0, 0>>,
     <<646, 0, 0, 0>>, <<204, 0, 0, 0>>, <<414, 0, 0, 0>>, <<413, 0, 0, 0>>, <<398, 0, 0, 0>>, <<449, 0, 0, 0>>,
     <<363, 0, 0, 0>>, <<588, 0, 0, 0>>, <<65, 0, 0, 0>>, <<617, 0, 0, 0>>, <<658, 0, 0, 0>>, <<126, 0, 0, 0>>,
     <<178, 0, 0, 0>>, <<536, 0, 0, 0>>, <<624, 0, 0, 0>>, <<201, 0, 0, 0>>, <<513, 0, 0, 0>>, <<506, 0, 0, 0>>,
     <<384, 0, 0, 0>>, <<336, 0, 0, 0>>, <<382, 0, 0, 0>>, <<348, 0, 0, 0>>, <<223, 0, 0, 0>>, <<316, 0, 0, 0>>,
     <<629, 0, 0, 0>>, <<88, 0, 0, 0>>, <<18, 0, 0, 0>>, <<278, 0, 0, 0>>, <<287, 0, 0, 0>>, <<524, 0, 0, 0>>,
     <<257, 0, 0, 0>>, <<421, 0, 0, 0>>, <<639, 0, 0, 0>>, <<424, 0, 0, 0>>, <<452, 0, 0, 0>>, <<511, 0, 0, 0>>,
     <<564, 0, 0, 0>>, <<538, 0, 0, 0>>, <<214, 0, 0, 0>>, <<514, 0, 0, 0>>, <<307, 0, 0, 0>>, <<31, 0, 0, 0>>,
     <<93, 0, 0, 0>>, <<471, 0, 0, 0>>, <<104, 0, 0, 0>>, <<528, 0, 0, 0>>, <<234, 0, 0, 0>>, <<352, 0, 0, 0>>,
     <<255, 0, 0, 0>>, <<534, 0, 0, 0>>, <<580, 0, 0, 0>>, <<113, 0, 0, 0>>, <<360, 0, 0, 0>>, <<526, 0, 0, 0>>,
     <<614, 0, 0, 0>>, <<532, 0, 0, 0>>, <<603, 0, 0, 0>>, <<537, 0, 0, 0>>, <<1, 0, 0, 0>>, <<370, 0, 0, 0>>,
     <<121, 0, 0, 0>>, <<430, 0, 0, 0>>, <<32, 0, 0, 0>>, <<417, 0, 0, 0>>, <<426, 0, 0, 0>>, <<391, 0, 0, 0>>,
     <<644, 0, 0, 0>>, <<358, 0, 0, 0>>, <<206, 0, 0, 0>>, <<3, 0, 0, 0>>, <<504, 0, 0, 0>>, <<13, 0, 0, 0>>,
     <<557, 0, 0, 0>>, <<444, 0, 0, 0>>, <<284, 0, 0, 0>>, <<584, 0, 0, 0>>, <<39, 0, 0, 0>>, <<251, 0, 0, 0>>,
     <<176, 0, 0, 0>>, <<508, 0, 0, 0>>, <<94, 0, 0, 0>>, <<156, 0, 0, 0>>, <<33, 0, 0, 0>>, <<273, 0, 0, 0>>,
     <<496, 0, 0, 0>>, <<246, 0, 0, 0>>, <<321, 0, 0, 0>>, <<58, 0, 0, 0>>, <<21, 0, 0, 0>>, <<165, 0, 0, 0>>,
     <<638, 0, 0, 0>>, <<436, 0, 0, 0>>, <<10, 0, 0, 0>>, <<145, 0, 0, 0>>, <<194, 0, 0, 0>>, <<498, 0, 0, 0>>,
     <<267, 0, 0, 0>>, <<292, 0, 0, 0>>, <<90, 0, 0, 0>>, <<497, 0, 0, 0>>, <<505, 0, 0, 0>>, <<510, 0, 0, 0>>,
     <<80, 0, 0, 0>>, <<435, 0, 0, 0>>, <<303, 0, 0, 0>>, <<42, 0, 0, 0>>, <<533, 0, 0, 0>>, <<529, 0, 0, 0>>,
     <<453, 0, 0, 0>>, <<329, 0, 0, 0>>, <<428, 0, 0, 0>>, <<35, 0, 0, 0>>, <<337, 0, 0, 0>>, <<269, 0, 0, 0>>,
     <<229, 0, 0, 0>>, <<297, 0, 0, 0>>, <<85, 0, 0, 0>>, <<562, 0, 0, 0>>, <<440, 0, 0, 0>>, <<357, 0, 0, 0>>,
     <<95, 0, 0, 0>>, <<50, 0, 0, 0>>, <<559, 0, 0, 0>>, <<446, 0, 0, 0>>, <<656, 0, 0, 0>>, <<606, 0, 0, 0>>,
     <<457, 0, 0, 0>>, <<459, 0, 0, 0>>, <<390, 0, 0, 0>>, <<59, 0, 0, 0>>, <<611, 0, 0, 0>>, <<306, 0, 0, 0>>,
     <<623, 0, 0, 0>>, <<188, 0, 0, 0>>, <<650, 0, 0, 0>>, <<582, 0, 0, 0>>, <<170, 0, 0, 0>>, <<249, 0, 0, 0>>,
     <<16, 0, 0, 0>>, <<380, 0, 0, 0>>, <<230, 0, 0, 0>>, <<130, 0, 0, 0>>, <<169, 0, 0, 0>>, <<138, 0, 0, 0>>,
     <<612, 0, 0, 0>>, <<207, 0, 0, 0>>, <<227, 0, 0, 0>>, <<598, 0, 0, 0>>, <<47, 0, 0, 0>>, <<483, 0, 0, 0>>,
     <<73, 0, 0, 0>>, <<67, 10, 0, 0>>, <<106, 0, 0, 0>>, <<175, 0, 0, 0>>, <<655, 0, 0, 0>>, <<22, 0, 0, 0>>,
     <<77, 0, 0, 0>>, <<133, 0, 0, 0>>, <<283, 0, 0, 0>>, <<377, 0, 0, 0>>, <<112, 0, 0, 0>>, <<232, 0, 0, 0>>,
     <<429, 0, 0, 0>>, <<117, 0, 0, 0>>, <<111, 0, 0, 0>>, <<332, 0, 0, 0>>, <<6, 0, 0, 0>>, <<324, 0, 0, 0>>,
     <<7, 0, 0, 0>>, <<409, 0, 0, 0>>, <<302, 0, 0, 0>>, <<260, 0, 0, 0>>, <<216, 0, 0, 0>>, <<320, 0, 0, 0>>,
     <<166, 0, 0, 0>>, <<475, 0, 0, 0>>, <<465, 0, 0, 0>>, <<45, 0, 0, 0>>, <<366, 0, 0, 0>>, <<519, 0, 0, 0>>,
     <<335, 0, 0, 0>>, <<200, 0, 0, 0>>, <<215, 0, 0, 0>>, <<205, 0, 0, 0>>, <<262, 0, 0, 0>>, <<419, 0, 0, 0>>,
     <<147, 0, 0, 0>>, <<237, 0, 0, 0>>, <<282, 0, 0, 0>>, <<359, 0, 0, 0>>, <<174, 0, 0, 0>>, <<379, 0, 0, 0>>,
     <<441, 0, 0, 0>>, <<551, 0, 0, 0>>, <<473, 0, 0, 0>>, <<605, 0, 0, 0>>, <<427, 0, 0, 0>>, <<474, 0, 0, 0>>,
     <<387, 0, 0, 0>>, <<84, 0, 0, 0>>, <<171, 0, 0, 0>>, <<222, 0, 0, 0>>, <<37, 0, 0, 0>>, <<565, 0, 0, 0>>,
     <<48, 0, 0, 0>>, <<549, 0, 0, 0>>, <<161, 0, 0, 0>>, <<521, 0, 0, 0>>, <<566, 0, 0, 0>>, <<518, 0, 0, 0>>,
     <<568, 0, 0, 0>>, <<403, 0, 0, 0>>, <<597, 0, 0, 0>>, <<397, 0, 0, 0>>, <<154, 0, 0, 0>>, <<649, 0, 0, 0>>,
     <<53, 0, 0, 0>>, <<522, 0, 0, 0>>, <<416, 0, 0, 0>>, <<240, 0, 0, 0>>, <<372, 0, 0, 0>>, <<645, 0, 0, 0>>,
     <<261, 0, 0, 0>>, <<314, 0, 0, 0>>, <<309, 0, 0, 0>>, <<395, 0, 0, 0>>, <<373, 0, 0, 0>>, <<20, 0, 0, 0>>,
     <<119, 0, 0, 0>>, <<27, 0, 0, 0>>, <<608, 0, 0, 0>>, <<340, 0, 0, 0>>, <<609, 0, 0, 0>>, <<361, 0, 0, 0>>,
     <<503, 0, 0, 0>>, <<241, 0, 0, 0>>, <<602, 0, 0, 0>>, <<30, 0, 0, 0>>, <<275, 0, 0, 0>>, <<569, 0, 0, 0>>,
     <<423, 0, 0, 0>>, <<454, 0, 0, 0>>, <<150, 0, 0, 0>>, <<621, 0, 0, 0>>, <<415, 0, 0, 0>>, <<344, 0, 0, 0>>,
     <<535, 0, 0, 0>>, <<411, 0, 0, 0>>, <<540, 0, 0, 0>>, <<199, 0, 0, 0>>, <<442, 0, 0, 0>>, <<371, 0, 0, 0>>,
     <<404, 0, 0, 0>>, <<210, 0, 0, 0>>, <<322, 0, 0, 0>>, <<432, 0, 0, 0>>, <<492, 0, 0, 0>>, <<560, 0, 0, 0>>,
     <<250, 0, 0, 0>>, <<132, 0, 0, 0>>, <<627, 0, 0, 0>>, <<233, 0, 0, 0>>, <<202, 0, 0, 0>>, <<304, 0, 0, 0>>,
     <<641, 0, 0, 0>>, <<338, 0, 0, 0>>, <<74, 0, 0, 0>>, <<575, 0, 0, 0>>, <<408, 0, 0, 0>>, <<425, 0, 0, 0>>,
     <<291, 0, 0, 0>>, <<135, 0, 0, 0>>, <<318, 0, 0, 0>>, <<601, 0, 0, 0>>, <<159, 0, 0, 0>>, <<489, 0, 0, 0>>,
     <<556, 0, 0, 0>>, <<385, 0, 0, 0>>, <<548, 0, 0, 0>>, <<554, 0, 0, 0>>, <<81, 0, 0, 0>>, <<362, 0, 0, 0>>,
     <<108, 0, 0, 0>>, <<270, 0, 0, 0>>, <<405, 0, 0, 0>>, <<136, 0, 0, 0>>, <<576, 0, 0, 0>>, <<55, 0, 0, 0>>,
     <<389, 0, 0, 0>>, <<354, 0, 0, 0>>, <<604, 0, 0, 0>>, <<388, 0, 0, 0>>, <<97, 0, 0, 0>>, <<198, 0, 0, 0>>,
     <<317, 0, 0, 0>>, <<334, 0, 0, 0>>, <<458, 0, 0, 0>>, <<491, 0, 0, 0>>, <<259, 0, 0, 0>>, <<583, 0, 0, 0>>,
     <<369, 0, 0, 0>>, <<129, 0, 0, 0>>, <<546, 0, 0, 0>>, <<87, 0, 0, 0>>, <<327, 0, 0, 0>>, <<266, 0, 0, 0>>,
     <<401, 0, 0, 0>>, <<550, 0, 0, 0>>, <<69, 0, 0, 0>>, <<274, 0, 0, 0>>, <<615, 0, 0, 0>>, <<400, 0, 0, 0>>,
     <<181, 0, 0, 0>>, <<353, 0, 0, 0>>, <<196, 0, 0, 0>>, <<456, 0, 0, 0>>, <<595, 0, 0, 0>>, <<420, 0, 0, 0>>,
     <<122, 0, 0, 0>>, <<392, 0, 0, 0>>, <<185, 0, 0, 0>>, <<516, 0, 0, 0>>, <<466, 0, 0, 0>>, <<476, 0, 0, 0>>,
     <<75, 0, 0, 0>>, <<235, 0, 0, 0>>, <<530, 0, 0, 0>>, <<448, 0, 0, 0>>, <<594, 0, 0, 0>>, <<378, 0, 0, 0>>,
     <<455, 0, 0, 0>>, <<447, 0, 0, 0>>, <<577, 0, 0, 0>>, <<285, 0, 0, 0>>, <<99, 0, 0, 0>>, <<558, 0, 0, 0>>,
     <<653, 0, 0, 0>>, <<410, 0, 0, 0>>, <<461, 0, 0, 0>>, <<160, 0, 0, 0>>, <<331, 0, 0, 0>>, <<290, 0, 0, 0>>,
     <<563, 0, 0, 0>>, <<613, 0, 0, 0>>, <<219, 0, 0, 0>>, <<394, 0, 0, 0>>, <<29, 0, 0, 0>>, <<552, 0, 0, 0>>,
     <<9, 0, 0, 0>>, <<189, 0, 0, 0>>, <<298, 0, 0, 0>>, <<137, 0, 0, 0>>, <<56, 0, 0, 0>>, <<636, 0, 0, 0>>,
     <<12, 0, 0, 0>>, <<581, 0, 0, 0>>, <<2, 0, 0, 0>>, <<109, 0, 0, 0>>, <<339, 0, 0, 0>>, <<127, 0, 0, 0>>,
     <<36, 0, 0, 0>>, <<443, 0, 0, 0>>, <<573, 0, 0, 0>>, <<523, 0, 0, 0>>, <<451, 0, 0, 0>>, <<479, 0, 0, 0>>,
     <<286, 0, 0, 0>>, <<28, 0, 0, 0>>, <<116, 0, 0, 0>>, <<312, 0, 0, 0>>, <<628, 0, 0, 0>>, <<545, 0, 0, 0>>,
     <<54, 0, 0, 0>>, <<82, 0, 0, 0>>, <<651, 0, 0, 0>>, <<482, 0, 0, 0>>, <<131, 0, 0, 0>>, <<26, 0, 0, 0>>,
     <<396, 0, 0, 0>>, <<271, 0, 0, 0>>, <<593, 0, 0, 0>>, <<124, 0, 0, 0>>, <<107, 0, 0, 0>>, <<515, 0, 0, 0>>,
     <<114, 0, 0, 0>>, <<407, 0, 0, 0>>, <<654, 0, 0, 0>>, <<268, 0, 0, 0>>, <<342, 0, 0, 0>>, <<277, 0, 0, 0>>,
     <<254, 0, 0, 0>>, <<14, 0, 0, 0>>, <<79, 0, 0, 0>>, <<191, 0, 0, 0>>, <<43, 0, 0, 0>>, <<252, 0, 0, 0>>,
     <<512, 0, 0, 0>>, <<256, 0, 0, 0>>, <<220, 0, 0, 0>>, <<381, 0, 0, 0>>, <<66, 0, 0, 0>>, <<481, 0, 0, 0>>,
     <<19, 0, 0, 0>>, <<228, 0, 0, 0>>, <<367, 0, 0, 0>>, <<487, 0, 0, 0>>, <<434, 0, 0, 0>>, <<349, 0, 0, 0>>,
     <<144, 0, 0, 0>>, <<460, 0, 0, 0>>, <<91, 0, 0, 0>>, <<495, 0, 0, 0>>, <<78, 0, 0, 0>>, <<195, 0, 0, 0>>,
     <<490, 0, 0, 0>>, <<67, 0, 0, 0>>, <<486, 0, 0, 0>>, <<64, 0, 0, 0>>, <<105, 0, 0, 0>>, <<467, 0, 0, 0>>,
     <<231, 0, 0, 0>>, <<507, 0, 0, 0>>, <<376, 0, 0, 0>>, <<248, 0, 0, 0>>, <<631, 0, 0, 0>>, <<520, 0, 0, 0>>,
     <<464, 0, 0, 0>>, <<221, 0, 0, 0>>, <<433, 0, 0, 0>>, <<622, 0, 0, 0>>, <<531, 0, 0, 0>>, <<197, 0, 0, 0>>,
     <<61, 0, 0, 0>>, <<163, 0, 0, 0>>, <<98, 0, 0, 0>>, <<648, 0, 0, 0>>, <<146, 0, 0, 0>>, <<238, 0, 0, 0>>,
     <<494, 0, 0, 0>>, <<125, 0, 0, 0>>, <<76, 0, 0, 0>>, <<242, 0, 0, 0>>, <<463, 0, 0, 0>>, <<326, 0, 0, 0>>,
     <<38, 0, 0, 0>>, <<152, 0, 0, 0>>, <<438, 0, 0, 0>>, <<345, 0, 0, 0>>, <<637, 0, 0, 0>>, <<40, 0, 0, 0>>,
     <<17, 0, 0, 0>>, <<281, 0, 0, 0>>, <<323, 0, 0, 0>>, <<110, 0, 0, 0>>, <<118, 0, 0, 0>>, <<578, 0, 0, 0>>,
     <<139, 0, 0, 0>>, <<315, 0, 0, 0>>, <<115, 0, 0, 0>>, <<62, 0, 0, 0>>, <<470, 0, 0, 0>>, <<293, 0, 0, 0>>,
     <<265, 0, 0, 0>>, <<258, 0, 0, 0>>, <<553, 0, 0, 0>>, <<301, 0, 0, 0>>, <<610, 0, 0, 0>>, <<555, 0, 0, 0>>,
     <<305, 0, 0, 0>>, <<634, 0, 0, 0>>, <<308, 0, 0, 0>>, <<626, 0, 0, 0>>, <<180, 0, 0, 0>>, <<253, 0, 0, 0>>,
     <<350, 0, 0, 0>>, <<502, 0, 0, 0>>, <<184, 0, 0, 0>>, <<431, 0, 0, 0>>, <<294, 0, 0, 0>>, <<264, 0, 0, 0>>,
     <<288, 0, 0, 0>>, <<632, 0, 0, 0>>, <<25, 0, 0, 0>>, <<607, 0, 0, 0>>, <<485, 0, 0, 0>>, <<592, 0, 0, 0>>,
     <<263, 0, 0, 0>>, <<128, 0, 0, 0>>, <<547, 0, 0, 0>>, <<100, 0, 0, 0>>, <<346, 0, 0, 0>> >>

\* s_i[k].0 as a u256, k = 0..26
S_I(k) == U256(DECOMPOSITION_S_I[k + 1])

\* the inverse of the next position's modulus
S_I_INVNext(k) == INVERSES_S_I[k + 2]

\* s_i_inv[k], k = 0..26
S_I_INV(k) == INVERSES_S_I[k + 1]

\* ------------------------------------------------------------------------
\* Bounds and inputs
\* ------------------------------------------------------------------------

\* how many of the sample inputs a run of bar_gadget is started on
NumInputs == 6

\* how many of them the twice-run specification uses
NumTwice == 2

\* s_box alone is called on every raw value 0..MaxRaw
MaxRaw == 703

\* reduced values of the sample inputs: 1 (the tests' input), a value with
\* digits on both sides of 659, 0, p - 1, 319 (the digit whose table entry is
\* the odd one), 693 (= s_0), the value with every digit k < 26 at s_k - 1,
\* and 2^64
Inputs ==
  << Small(1),
     <<49, 240, 39, 95, 206, 136, 56, 132, 158, 28, 206, 173, 2, 195, 74, 79, 194, 37, 202, 170, 86, 81, 246, 166, 195, 36, 120, 151, 87, 216, 100, 51>>,
     Zero,
     SubBytes(MODULUS, Small(1)),
     Small(319),
     Small(693),
     <<255, 255, 127, 231, 186, 222, 180, 210, 194, 50, 110, 210, 149, 115, 147, 222, 214, 80, 17, 191, 15, 45, 38, 180, 34, 254, 57, 58, 58, 175, 195, 115>>,
     U256(<<0, 1, 0, 0>>) >>

\* raw limb values beyond MaxRaw that s_box alone is also called on
BigRaw == {R, SubBytes(MODULUS, Small(1)), U256(<<659, 1, 0, 0>>)}

\* ------------------------------------------------------------------------
\* State
\* ------------------------------------------------------------------------

VARIABLES
  pc,                  \* position in bar_gadget / decomposition_gadget
  k,                   \* the running loop's index
  run,                 \* 1, or 2 in the second invocation of the twice-run
  first,               \* what the first invocation left, for the second
  variables,           \* composer.variables: handle -> BlsScalar limbs
  gates,               \* the gates emitted by this invocation, in order
  x,                   \* the input handle
  reduced_input,       \* decomposition_gadget's locals ...
  intermediate,
  remainder,
  range,
  nibbles,
  nibbles_montgomery,
  s_ik_var,
  acc,
  tuple,               \* bar_gadget's locals ...
  accumulator_var,
  output               \* the handle returned

vars ==
  <<pc, k, run, first, variables, gates, x, reduced_input, intermediate,
    remainder, range, nibbles, nibbles_montgomery, s_ik_var, acc, tuple,
    accumulator_var, output>>

\* composer.zero_var: the handle StandardComposer::new() binds to zero
zero_var == 1

\* ------------------------------------------------------------------------
\* Constraint system primitives (StandardComposer)
\* ------------------------------------------------------------------------

\* a gate q_m*a*b + q_l*a + q_r*b + q_o*c + q_4*d + q_c + pi = 0
Gate(kind, a, b, c, d, q_m, q_l, q_r, q_o, q_4, q_c, pi) ==
  [kind |-> kind, a |-> a, b |-> b, c |-> c, d |-> d, q_m |-> q_m,
   q_l |-> q_l, q_r |-> q_r, q_o |-> q_o, q_4 |-> q_4, q_c |-> q_c,
   pi |-> pi]

\* the composer as one value
Composer(vs, gs) == [variables |-> vs, gates |-> gs]

\* the handle of the witness allocated last
Last(cs) == Len(cs.variables)

\* add_input(s): a new witness bound to s
add_input(cs, s) == [cs EXCEPT !.variables = Append(@, s)]

\* big_add((q_l, a), (q_r, b), None | Some((q_4, d)), q_c, pi): the witness
\* c = q_l*a + q_r*b + q_4*d + q_c + pi and the gate binding it
big_add(cs, q_l, a, q_r, b, q_4, d, q_c, pi) ==
  LET v      == cs.variables
      c_eval == add(add(add(add(mul(q_l, v[a]), mul(q_r, v[b])),
                            mul(q_4, v[d])), q_c), pi)
      c      == Len(v) + 1
  IN [variables |-> Append(v, c_eval),
      gates |-> Append(cs.gates,
                       Gate("add", a, b, c, d, Zero, q_l, q_r, neg(one), q_4,
                            q_c, pi))]

\* big_mul(q_m, a, b, None | Some((q_4, d)), q_c, pi): the witness
\* c = q_m*a*b + q_4*d + q_c + pi and the gate binding it
big_mul(cs, q_m, a, b, q_4, d, q_c, pi) ==
  LET v      == cs.variables
      c_eval == add(add(add(mul(mul(q_m, v[a]), v[b]), mul(q_4, v[d])), q_c),
                    pi)
      c      == Len(v) + 1
  IN [variables |-> Append(v, c_eval),
      gates |-> Append(cs.gates,
                       Gate("mul", a, b, c, d, q_m, Zero, Zero, neg(one), q_4,
                            q_c, pi))]

\* constrain_to_constant(a, constant, pi): the gate a - constant + pi = 0
constrain_to_constant(cs, a, constant, pi) ==
  [cs EXCEPT !.gates =
     Append(@, Gate("const", a, a, a, zero_var, Zero, one, Zero, Zero, Zero,
                    neg(constant), pi))]

\* the left-hand side of a gate under the witness assignment v
GateValue(g, v) ==
  add(add(add(add(add(add(mul(mul(g.q_m, v[g.a]), v[g.b]),
                          mul(g.q_l, v[g.a])),
                      mul(g.q_r, v[g.b])),
                  mul(g.q_o, v[g.c])),
              mul(g.q_4, v[g.d])),
          g.q_c),
      g.pi)

\* check_circuit_satisfied, for one gate
GateSatisfied(g, v) == GateValue(g, v) = Zero

\* ------------------------------------------------------------------------
\* The gadgets
\* ------------------------------------------------------------------------

\* a digit loop that reduces by the next position's modulus
StepRemainderNext(kk, interm) ==
  IF kk < 26 THEN URem(interm, S_I(kk + 1)) ELSE interm

\* a digit loop that stops reducing one position early
StepRemainderEarly(kk, interm) ==
  IF kk < 25 THEN URem(interm, S_I(kk)) ELSE interm

\* decomposition_gadget, loop body: the digit taken at step k
StepRemainder(kk, interm) ==
  IF kk < 26 THEN URem(interm, S_I(kk)) ELSE interm

\* a digit loop that divides without taking the digit off first
StepIntermediateKeep(kk, interm, rem) ==
  IF kk < 26 THEN mul(interm, S_I_INV(kk)) ELSE interm

\* decomposition_gadget, loop body: the value carried to step k + 1
StepIntermediate(kk, interm, rem) ==
  IF kk < 26 THEN mul(USub(interm, rem), S_I_INV(kk)) ELSE interm

\* decomposition_gadget, loop body: the even bound computed for digit k
StepRange(kk) ==
  Bind(LAMBDA s : IF s % 2 = 1 THEN s + 1 ELSE s, AsInt(S_I(kk)))

\* a lookup that lets zero through unchanged
PermutationSkipZero(value) ==
  IF IsBelow(value, 659) /\ value # Zero
  THEN U256(SBOX_BLS[AsInt(value) + 1])
  ELSE value

\* s_box: the table lookup on the raw limbs of the input (a value)
Permutation(value) ==
  IF IsBelow(value, 659) THEN U256(SBOX_BLS[AsInt(value) + 1]) ELSE value

\* an s_box that binds the permutation's limbs as they are
s_boxRaw(cs, input) ==
  add_input(cs, Bind(Permutation, cs.variables[input]))

\* an s_box that pins its output to the value it bound
s_boxPinned(cs, input) ==
  Bind(LAMBDA c1 : constrain_to_constant(c1, Last(c1),
                                         c1.variables[Last(c1)], Zero),
       add_input(cs, from_raw(Bind(Permutation, cs.variables[input]))))

\* an s_box that emits a gate on its output only for a value of the table
s_boxTableGate(cs, input) ==
  Bind(LAMBDA c1 : IF IsBelow(cs.variables[input], 659)
                   THEN constrain_to_constant(c1, Last(c1),
                                              c1.variables[Last(c1)], Zero)
                   ELSE c1,
       add_input(cs, from_raw(Bind(Permutation, cs.variables[input]))))

\* s_box: one new witness, the permutation in Montgomery form
s_box(cs, input) ==
  add_input(cs, from_raw(Bind(Permutation, cs.variables[input])))

\* the handles of an array with entry kk (0-based) replaced
SetAt(arr, kk, h) == [arr EXCEPT ![kk + 1] = h]

\* the locals of both gadgets before bar_gadget is entered; a handle not yet
\* assigned reads zero_var
NoLocals ==
  /\ reduced_input = Zero
  /\ intermediate = Zero
  /\ remainder = Zero
  /\ range = 0
  /\ nibbles = <<>>
  /\ nibbles_montgomery = <<>>
  /\ s_ik_var = zero_var
  /\ acc = zero_var
  /\ tuple = <<>>
  /\ accumulator_var = zero_var
  /\ output = zero_var

\* a fresh composer holding zero_var and one input witness of canonical
\* value val, bar_gadget about to be called on it
Fresh(val) ==
  /\ pc = "entry"
  /\ k = 0
  /\ variables = <<Zero, from_raw(val)>>
  /\ gates = <<>>
  /\ x = 2
  /\ NoLocals

Init ==
  /\ run = 1
  /\ first = <<>>
  /\ \E i \in 1..NumInputs : Fresh(Inputs[i])

\* an entry that keeps the running quotient of an earlier invocation
DecompEnterStale ==
  /\ pc = "entry"
  /\ nibbles' = [i \in 1..27 |-> x]
  /\ nibbles_montgomery' = [i \in 1..27 |-> x]
  /\ \E red \in {reduce(variables[x])} :
       /\ reduced_input' = red
       /\ intermediate' = IF run = 1 THEN red ELSE intermediate
  /\ remainder' = Zero
  /\ k' = 0
  /\ pc' = "decompose"
  /\ UNCHANGED <<run, first, variables, gates, x, range, s_ik_var, acc, tuple,
                 accumulator_var, output>>

\* decomposition_gadget is entered: its locals are initialised
DecompEnter ==
  /\ pc = "entry"
  /\ nibbles' = [i \in 1..27 |-> x]
  /\ nibbles_montgomery' = [i \in 1..27 |-> x]
  /\ \E red \in {reduce(variables[x])} :
       /\ reduced_input' = red
       /\ intermediate' = red
  /\ remainder' = Zero
  /\ k' = 0
  /\ pc' = "decompose"
  /\ UNCHANGED <<run, first, variables, gates, x, range, s_ik_var, acc, tuple,
                 accumulator_var, output>>

\* one iteration of the digit loop
DecompStep ==
  /\ pc = "decompose"
  /\ \E rem \in {StepRemainder(k, intermediate)} :
       /\ remainder' = rem
       /\ intermediate' = StepIntermediate(k, intermediate, rem)
       /\ variables' = variables \o <<rem, from_raw(rem)>>
  /\ nibbles' = SetAt(nibbles, k, Len(variables) + 1)
  /\ nibbles_montgomery' = SetAt(nibbles_montgomery, k, Len(variables) + 2)
  /\ range' = StepRange(k)
  /\ IF k < 26
     THEN k' = k + 1 /\ pc' = pc
     ELSE k' = 0 /\ pc' = "difference"
  /\ UNCHANGED <<run, first, gates, x, reduced_input, s_ik_var, acc, tuple,
                 accumulator_var, output>>

\* the modulus s_25 in both forms and the two differences
DecompDifference ==
  /\ pc = "difference"
  /\ \E c1 \in {add_input(Composer(variables, gates), from_raw(S_I(25)))} :
     \E c2 \in {add_input(c1, S_I(25))} :
     \E c3 \in {big_add(c2, one, Last(c1), neg(one), nibbles_montgomery[26],
                        Zero, zero_var, Zero, Zero)} :
     \E c4 \in {big_add(c3, one, Last(c2), neg(one), nibbles[26],
                        Zero, zero_var, Zero, Zero)} :
       /\ s_ik_var' = Last(c1)
       /\ variables' = c4.variables
       /\ gates' = c4.gates
  /\ pc' = "acc_init"
  /\ UNCHANGED <<k, run, first, x, reduced_input, intermediate, remainder,
                 range, nibbles, nibbles_montgomery, acc, tuple,
                 accumulator_var, output>>

\* the recomposition accumulator is seeded
DecompAccInit ==
  /\ pc = "acc_init"
  /\ \E c1 \in {big_mul(Composer(variables, gates), one, nibbles[27],
                        s_ik_var, one, nibbles[26], Zero, Zero)} :
       /\ acc' = Last(c1)
       /\ variables' = c1.variables
       /\ gates' = c1.gates
  /\ k' = 1
  /\ pc' = "acc_fold"
  /\ UNCHANGED <<run, first, x, reduced_input, intermediate, remainder, range,
                 nibbles, nibbles_montgomery, s_ik_var, tuple,
                 accumulator_var, output>>

\* a recomposition loop that folds the Montgomery-form digit handles
DecompAccStepMontgomery ==
  /\ pc = "acc_fold"
  /\ \E c1 \in {add_input(Composer(variables, gates),
                          from_raw(S_I(25 - k)))} :
     \E c2 \in {big_mul(c1, one, acc, Last(c1), one,
                        nibbles_montgomery[(25 - k) + 1], Zero, Zero)} :
       /\ acc' = Last(c2)
       /\ variables' = c2.variables
       /\ gates' = c2.gates
  /\ IF k < 25
     THEN k' = k + 1 /\ pc' = pc
     ELSE k' = 0 /\ pc' = "constrain"
  /\ UNCHANGED <<run, first, x, reduced_input, intermediate, remainder, range,
                 nibbles, nibbles_montgomery, s_ik_var, tuple,
                 accumulator_var, output>>

\* one iteration of the recomposition loop, k = 1..25
DecompAccStep ==
  /\ pc = "acc_fold"
  /\ \E c1 \in {add_input(Composer(variables, gates),
                          from_raw(S_I(25 - k)))} :
     \E c2 \in {big_mul(c1, one, acc, Last(c1), one, nibbles[(25 - k) + 1],
                        Zero, Zero)} :
       /\ acc' = Last(c2)
       /\ variables' = c2.variables
       /\ gates' = c2.gates
  /\ IF k < 25
     THEN k' = k + 1 /\ pc' = pc
     ELSE k' = 0 /\ pc' = "constrain"
  /\ UNCHANGED <<run, first, x, reduced_input, intermediate, remainder, range,
                 nibbles, nibbles_montgomery, s_ik_var, tuple,
                 accumulator_var, output>>

\* a decomposition that returns without pinning its accumulator
DecompConstrainNone ==
  /\ pc = "constrain"
  /\ tuple' = nibbles
  /\ k' = 0
  /\ pc' = "s_box"
  /\ UNCHANGED <<run, first, variables, gates, x, reduced_input, intermediate,
                 remainder, range, nibbles, nibbles_montgomery, s_ik_var, acc,
                 accumulator_var, output>>

\* a decomposition that returns the Montgomery-form digit handles
DecompConstrainMontgomery ==
  /\ pc = "constrain"
  /\ gates' = constrain_to_constant(Composer(variables, gates), acc,
                                    reduced_input, Zero).gates
  /\ tuple' = nibbles_montgomery
  /\ k' = 0
  /\ pc' = "s_box"
  /\ UNCHANGED <<run, first, variables, x, reduced_input, intermediate,
                 remainder, range, nibbles, nibbles_montgomery, s_ik_var, acc,
                 accumulator_var, output>>

\* a decomposition that pins digit 0 to its value as well
DecompConstrainDigit ==
  /\ pc = "constrain"
  /\ \E c1 \in {constrain_to_constant(Composer(variables, gates), acc,
                                      reduced_input, Zero)} :
       gates' = constrain_to_constant(c1, nibbles[1], variables[nibbles[1]],
                                      Zero).gates
  /\ tuple' = nibbles
  /\ k' = 0
  /\ pc' = "s_box"
  /\ UNCHANGED <<run, first, variables, x, reduced_input, intermediate,
                 remainder, range, nibbles, nibbles_montgomery, s_ik_var, acc,
                 accumulator_var, output>>

\* the accumulator is pinned to the reduced input; the digits are returned
\* to bar_gadget
DecompConstrain ==
  /\ pc = "constrain"
  /\ gates' = constrain_to_constant(Composer(variables, gates), acc,
                                    reduced_input, Zero).gates
  /\ tuple' = nibbles
  /\ k' = 0
  /\ pc' = "s_box"
  /\ UNCHANGED <<run, first, variables, x, reduced_input, intermediate,
                 remainder, range, nibbles, nibbles_montgomery, s_ik_var, acc,
                 accumulator_var, output>>

\* bar_gadget: tuple[k] = s_box(tuple[k]), k = 0..26; after the last one the
\* accumulator starts as zero_var
SBoxStep ==
  /\ pc = "s_box"
  /\ \E c1 \in {s_box(Composer(variables, gates), tuple[k + 1])} :
       /\ variables' = c1.variables
       /\ gates' = c1.gates
       /\ tuple' = SetAt(tuple, k, Last(c1))
  /\ IF k < 26
     THEN k' = k + 1 /\ accumulator_var' = accumulator_var /\ pc' = pc
     ELSE k' = 26 /\ accumulator_var' = zero_var /\ pc' = "fold"
  /\ UNCHANGED <<run, first, x, reduced_input, intermediate, remainder, range,
                 nibbles, nibbles_montgomery, s_ik_var, acc, output>>

\* a fold seeded with the substituted digit below the top one
FoldSeedBelow(cs, kk, a, t) ==
  IF kk = 26
  THEN big_add(cs, one, a, one, t[kk], Zero, zero_var, Zero, Zero)
  ELSE cs

\* bar_gadget, fold iteration k: the addition made only when k = 26
FoldSeed(cs, kk, a, t) ==
  IF kk = 26
  THEN big_add(cs, one, a, one, t[kk + 1], Zero, zero_var, Zero, Zero)
  ELSE cs

\* bar_gadget: one iteration of the reversed fold, k = 26 down to 1
BarFoldStep ==
  /\ pc = "fold"
  /\ \E c1 \in {FoldSeed(Composer(variables, gates), k, accumulator_var,
                         tuple)} :
     \E c2 \in {add_input(c1, from_raw(S_I(k - 1)))} :
     \E c3 \in {big_mul(c2, one,
                        IF k = 26 THEN Last(c1) ELSE accumulator_var,
                        Last(c2), one, tuple[(k - 1) + 1], Zero, Zero)} :
       /\ accumulator_var' = Last(c3)
       /\ variables' = c3.variables
       /\ gates' = c3.gates
  /\ IF k > 1
     THEN k' = k - 1 /\ pc' = pc
     ELSE k' = 0 /\ pc' = "return"
  /\ UNCHANGED <<run, first, x, reduced_input, intermediate, remainder, range,
                 nibbles, nibbles_montgomery, s_ik_var, acc, tuple, output>>

\* bar_gadget returns the accumulator
BarReturn ==
  /\ pc = "return"
  /\ output' = accumulator_var
  /\ pc' = "done"
  /\ UNCHANGED <<k, run, first, variables, gates, x, reduced_input,
                 intermediate, remainder, range, nibbles, nibbles_montgomery,
                 s_ik_var, acc, tuple, accumulator_var>>

Next ==
  \/ DecompEnter
  \/ DecompStep
  \/ DecompDifference
  \/ DecompAccInit
  \/ DecompAccStep
  \/ DecompConstrain
  \/ SBoxStep
  \/ BarFoldStep
  \/ BarReturn

Spec == Init /\ [][Next]_vars

\* ------------------------------------------------------------------------
\* bar_gadget twice on equal inputs, each time on a fresh composer
\* ------------------------------------------------------------------------

InitTwice ==
  /\ run = 1
  /\ first = <<>>
  /\ \E i \in 1..NumTwice : Fresh(Inputs[i])

\* the first invocation is over: what it left is kept aside and bar_gadget is
\* called on a new composer holding an input of the same value. The locals
\* of the first invocation are dead: the second assigns each before reading.
Rerun ==
  /\ pc = "done"
  /\ run = 1
  /\ first' = [variables |-> variables, gates |-> gates, output |-> output]
  /\ run' = 2
  /\ variables' = <<Zero, variables[x]>>
  /\ gates' = <<>>
  /\ x' = 2
  /\ k' = 0
  /\ pc' = "entry"
  /\ UNCHANGED <<reduced_input, intermediate, remainder, range, nibbles,
                 nibbles_montgomery, s_ik_var, acc, tuple, accumulator_var,
                 output>>

NextTwice == Next \/ Rerun

SpecTwice == InitTwice /\ [][NextTwice]_vars

\* ------------------------------------------------------------------------
\* bar_gadget on two inputs of any values, each on a fresh composer
\* ------------------------------------------------------------------------

\* the first invocation is over: what it left is kept aside and bar_gadget is
\* called on a new composer holding any of the sample inputs
RerunOther ==
  /\ pc = "done"
  /\ run = 1
  /\ first' = [variables |-> variables, gates |-> gates, output |-> output]
  /\ run' = 2
  /\ \E i \in 1..NumInputs : variables' = <<Zero, from_raw(Inputs[i])>>
  /\ gates' = <<>>
  /\ x' = 2
  /\ k' = 0
  /\ pc' = "entry"
  /\ UNCHANGED <<reduced_input, intermediate, remainder, range, nibbles,
                 nibbles_montgomery, s_ik_var, acc, tuple, accumulator_var,
                 output>>

NextPair == Next \/ RerunOther

SpecPair == InitTwice /\ [][NextPair]_vars

\* ------------------------------------------------------------------------
\* s_box alone, on a handle of any raw value
\* ------------------------------------------------------------------------

InitSBox ==
  /\ run = 1
  /\ first = <<>>
  /\ pc = "s_box_call"
  /\ k = 0
  /\ \E v \in {Small(n) : n \in 0..MaxRaw} \cup BigRaw :
       variables = <<Zero, v>>
  /\ gates = <<>>
  /\ x = 2
  /\ NoLocals

\* composer.s_box(x)
SBoxCall ==
  /\ pc = "s_box_call"
  /\ \E c1 \in {s_box(Composer(variables, gates), x)} :
       /\ variables' = c1.variables
       /\ gates' = c1.gates
       /\ output' = Last(c1)
  /\ pc' = "s_box_done"
  /\ UNCHANGED <<k, run, first, x, reduced_input, intermediate, remainder,
                 range, nibbles, nibbles_montgomery, s_ik_var, acc, tuple,
                 accumulator_var>>

NextSBox == SBoxCall

SpecSBox == InitSBox /\ [][NextSBox]_vars


\* ------------------------------------------------------------------------
\* Reference arithmetic for the properties: plain integers of any length as
\* byte tuples, least significant first; no Montgomery form, no modulus
\* ------------------------------------------------------------------------

\* byte i of a, zero beyond its length
Byte(a, i) == IF i <= Len(a) THEN a[i] ELSE 0

\* a and b are the same integer
EqWide(a, b) ==
  \A i \in 1..(IF Len(a) > Len(b) THEN Len(a) ELSE Len(b)) :
    Byte(a, i) = Byte(b, i)

\* a * m + d for an integer m < 2^16 and Len(d) <= Len(a) + 2; two bytes
\* longer than a
MulAddSmall(a, m, d) ==
  FoldRange(LAMBDA s, i :
              Bind(LAMBDA v : <<Append(s[1], v % B), v \div B>>,
                   Byte(a, i) * m + Byte(d, i) + s[2]),
            <<<<>>, 0>>, 1, Len(a) + 2)[1]

\* <<a div m, a mod m>> for an integer m < 2^16: long division, top byte
\* first
DivSmall(a, m) ==
  FoldRange(LAMBDA s, i :
              Bind(LAMBDA v : << <<v \div m>> \o s[1], v % m>>,
                   s[2] * B + a[Len(a) + 1 - i]),
            <<<<>>, 0>>, 1, Len(a))

\* ((ds[27] * s_25 + ds[26]) * s_24 + ... ) * s_0 + ds[1] as an integer
Recompose(ds) ==
  FoldRange(LAMBDA a, j :
              MulAddSmall(a, AsInt(S_I(26 - j)), ds[(26 - j) + 1]),
            ds[27], 1, 26)

\* the 27 mixed-radix digits of the integer v: v mod s_0 first, the last
\* quotient last
RefDigits(v) ==
  FoldRange(LAMBDA s, j :
              IF j < 26
              THEN Bind(LAMBDA qr : <<Append(s[1], Small(qr[2])), qr[1]>>,
                        DivSmall(s[2], AsInt(S_I(j))))
              ELSE <<Append(s[1], s[2]), s[2]>>,
            <<<<>>, v>>, 0, 26)[1]

\* w mod p for w < 2^10 * p: p * 2^j is taken off where it fits, j = 9..0
ModP(w) ==
  SubSeq(FoldRange(LAMBDA a, i :
                     Bind(LAMBDA pj : IF Geq(a, pj) THEN SubBytes(a, pj)
                                      ELSE a,
                          MulAddSmall(MODULUS, 2 ^ (10 - i), Zero)),
                   w, 1, 10),
         1, NB)

\* ((ts[27] * s_25 + ts[26]) * s_24 + ... ) * s_0 + ts[1] modulo p, for
\* canonical values ts
RecomposeModP(ts) ==
  FoldRange(LAMBDA a, j :
              Bind(ModP, MulAddSmall(a, AsInt(S_I(26 - j)), ts[(26 - j) + 1])),
            ts[27], 1, 26)

\* the value the substitution assigns to the raw value v
Substituted(v) ==
  IF IsBelow(v, 659) THEN U256(SBOX_BLS[AsInt(v) + 1]) ELSE v

\* how many digits the decomposition has bound so far
DigitsDone ==
  IF pc = "entry" THEN 0 ELSE IF pc = "decompose" THEN k ELSE 27

\* how many digits bar_gadget has substituted so far
SubstitutedDone ==
  IF pc = "s_box" THEN k
  ELSE IF pc \in {"fold", "return", "done"} THEN 27 ELSE 0

\* the raw limbs bound to the digit handles
DigitLimbs == [j \in 1..27 |-> variables[nibbles[j]]]

\* the equality-to-constant gates emitted so far
ConstGates == {i \in 1..Len(gates) : gates[i].kind = "const"}

\* ------------------------------------------------------------------------
\* Properties
\* ------------------------------------------------------------------------

\* C1: once bar_gadget has returned, every gate it emitted (the weighted
\* additions, the weighted multiplications and the equality to the public
\* constant) evaluates to zero under the witness values the gadgets bound.
GatesSatisfied ==
  pc = "done" => \A i \in 1..Len(gates) : GateSatisfied(gates[i], variables)

\* bar_gadget has returned, having emitted gates of all three kinds
GatesSatisfiedReached ==
  /\ pc = "done"
  /\ \A kind \in {"add", "mul", "const"} :
       \E i \in 1..Len(gates) : gates[i].kind = kind

\* C2: the 27 digits the decomposition bound recompose, as an integer and
\* with no reduction modulo p, to the reduced value of the input.
RoundTrip ==
  DigitsDone = 27 => EqWide(Recompose(DigitLimbs), reduce(variables[x]))

\* the decomposition is complete with a top digit that is not zero
RoundTripReached ==
  /\ pc = "difference"
  /\ variables[nibbles[27]] # Zero
  /\ variables[nibbles[1]] # Zero

\* C3: every digit bound so far, the last quotient at position 26 included,
\* is strictly below the modulus of its position.
DigitBound ==
  \A j \in 1..DigitsDone :
    IsBelow(variables[nibbles[j]], AsInt(S_I(j - 1)))

\* all 27 digits are bound and the top one is the largest a field element has
DigitBoundReached ==
  /\ DigitsDone = 27
  /\ variables[nibbles[27]] = Small(AsInt(S_I(26)) - 1)

\* C4: s_box allocates one new witness and binds it to the Montgomery form
\* of the table entry of the input's raw value when that is below 659, and
\* of the raw value itself otherwise; nothing else changes.
SubstitutionDomain ==
  pc = "s_box_done" =>
    /\ Len(variables) = 3
    /\ output = 3
    /\ variables[1] = Zero
    /\ gates = <<>>
    /\ reduce(variables[output]) = Substituted(variables[x])
    /\ variables[output] = from_raw(Substituted(variables[x]))

\* s_box has returned on the first raw value outside the table
SubstitutionDomainReached ==
  /\ pc = "s_box_done"
  /\ variables[x] = Small(659)
  /\ reduce(variables[output]) = Small(659)

\* C5: the table is a permutation of 0..658: the value s_box binds for a raw
\* value below 659 is below 659, and no other raw value has the same entry.
TablePermutation ==
  (pc = "s_box_done" /\ IsBelow(variables[x], 659)) =>
    /\ IsBelow(reduce(variables[output]), 659)
    /\ \A j \in 1..Len(SBOX_BLS) :
         SBOX_BLS[j] = SBOX_BLS[AsInt(variables[x]) + 1]
           => j = AsInt(variables[x]) + 1

\* C6: the handle bar_gadget returns has the value of the Horner form of the
\* 27 substituted digits over the moduli s_25 .. s_0, modulo p; each
\* substituted digit is the substitution of its digit and is an operand of
\* exactly one gate of the fold.
BarOutput ==
  pc = "done" =>
    /\ \A j \in 1..27 :
         reduce(variables[tuple[j]]) = Substituted(variables[nibbles[j]])
    /\ reduce(variables[output])
         = RecomposeModP([j \in 1..27 |-> reduce(variables[tuple[j]])])
    /\ \A j \in 1..27 :
         Cardinality({i \in 1..Len(gates) :
                        /\ \A c \in ConstGates : i > c
                        /\ tuple[j] \in {gates[i].a, gates[i].b, gates[i].d}})
           = 1

\* bar_gadget has returned a value built from substituted digits that are
\* table entries and from ones that passed through
BarOutputReached ==
  /\ pc = "done"
  /\ output = Len(variables)
  /\ \E j \in 1..27 : IsBelow(variables[nibbles[j]], 659)
  /\ \E j \in 1..27 : ~IsBelow(variables[nibbles[j]], 659)

ZeroBoundary ==
  reduce(variables[x]) = Zero =>
    /\ \A j \in 1..DigitsDone : variables[nibbles[j]] = Zero
    /\ pc \in {"acc_fold", "constrain", "s_box", "fold", "return", "done"}
         => variables[acc] = Zero
    /\ \A j \in 1..SubstitutedDone :
         /\ variables[tuple[j]] = from_raw(U256(SBOX_BLS[1]))
         /\ reduce(variables[tuple[j]]) = U256(SBOX_BLS[1])

\* bar_gadget has returned on the input of value 0
ZeroBoundaryReached ==
  /\ variables[x] = Zero
  /\ pc = "done"
  /\ SubstitutedDone = 27

\* C9: the only equality-to-constant gate is the one decomposition_gadget
\* emits as it returns, on its accumulator and the input's reduced value;
\* the handle bar_gadget returns is not its subject and no gate carries a
\* public input.
OneConstant ==
  /\ Cardinality(ConstGates)
       = (IF pc \in {"s_box", "fold", "return", "done"} THEN 1 ELSE 0)
  /\ \A i \in ConstGates :
       /\ gates[i].a = acc
       /\ gates[i].q_c = neg(reduce(variables[x]))
       /\ pc = "done" => gates[i].a # output
  /\ \A i \in 1..Len(gates) : gates[i].pi = Zero

\* bar_gadget has returned and the constant gate is among its gates
OneConstantReached ==
  /\ pc = "done"
  /\ ConstGates # {}
  /\ output # zero_var

\* C10: the handles decomposition_gadget returns are the raw digit
\* witnesses, digit 0 = input mod s_0 first and the last quotient last, and
\* none is a Montgomery-form digit witness: every handle bar_gadget has
\* still to pass to s_box is bound to the digit itself.
RawDigitsReturned ==
  pc = "s_box" =>
    \A j \in (k + 1)..27 :
      /\ tuple[j] = nibbles[j]
      /\ \A i \in 1..27 : tuple[j] # nibbles_montgomery[i]
      /\ variables[tuple[j]] = RefDigits(reduce(variables[x]))[j]

\* decomposition_gadget has just returned digits that differ from their
\* Montgomery forms
RawDigitsReturnedReached ==
  /\ pc = "s_box"
  /\ k = 0
  /\ variables[tuple[1]] # Zero
  /\ variables[tuple[1]] # variables[nibbles_montgomery[1]]

\* C11: each of the steps k = 0..25 of the digit loop binds the integer
\* remainder of the running value by s_k as digit k and leaves the integer
\* quotient floor(r / s_k) as the running value: the multiplication by the
\* precomputed inverse does not wrap around p.
QuotientExact ==
  [][(pc = "decompose" /\ k < 26) =>
       \E qr \in {DivSmall(intermediate, AsInt(S_I(k)))} :
         /\ intermediate' = qr[1]
         /\ remainder' = Small(qr[2])
         /\ variables'[nibbles'[k + 1]] = Small(qr[2])]_vars

\* the 26 divisions are done and left a quotient that is not zero, after a
\* digit 0 that was not zero
QuotientExactReached ==
  /\ pc = "decompose"
  /\ k = 26
  /\ intermediate # Zero
  /\ variables[nibbles[1]] # Zero

\* the gates of decomposition_gadget's recomposition, with ds the digit
\* handles they fold: gates 3..28 are the multiplications acc * s + digit
\* for s = s_25 down to s_0, each modulus a witness of its own allocated
\* after the digits and bound to the Montgomery form of s, each accumulator
\* the output of the gate before; the last output is the handle pinned to
\* the input's reduced value
FoldWiring(ds) ==
  /\ Len(gates) >= 29
  /\ gates[1].kind = "add"
  /\ gates[2].kind = "add"
  /\ \A j \in 0..25 :
       /\ gates[3 + j].kind = "mul"
       /\ gates[3 + j].q_m = one
       /\ gates[3 + j].q_4 = one
       /\ gates[3 + j].d = ds[(25 - j) + 1]
       /\ gates[3 + j].a = (IF j = 0 THEN ds[27] ELSE gates[2 + j].c)
       /\ gates[3 + j].b
            = (IF j = 0 THEN s_ik_var ELSE gates[3 + j].c - 1)
       /\ \A i \in 1..27 :
            /\ gates[3 + j].b > nibbles[i]
            /\ gates[3 + j].b > nibbles_montgomery[i]
       /\ variables[gates[3 + j].b] = from_raw(S_I(25 - j))
  /\ gates[29].kind = "const"
  /\ gates[29].a = gates[28].c
  /\ gates[29].a = acc
  /\ gates[29].q_c = neg(reduce(variables[x]))

\* C12, as stated: when decomposition_gadget returns, the digits its
\* recomposition gates fold are the Montgomery-form digit witnesses.
FoldsMontgomeryDigits ==
  (pc = "s_box" /\ k = 0) => FoldWiring(nibbles_montgomery)

\* C12, amended: when decomposition_gadget returns, the digits its
\* recomposition gates fold are the reduced-form digit witnesses, the
\* moduli are fresh Montgomery-form witnesses, and the last accumulator is
\* the handle pinned to the input's reduced value.
FoldsRawDigits ==
  (pc = "s_box" /\ k = 0) => FoldWiring(nibbles)

\* decomposition_gadget has returned with the recomposition gates emitted,
\* for digits whose two forms are different witnesses of different values
FoldsRawDigitsReached ==
  /\ pc = "s_box"
  /\ k = 0
  /\ Len(gates) = 29
  /\ \A j \in 1..27 : nibbles[j] # nibbles_montgomery[j]
  /\ variables[nibbles[1]] # variables[nibbles_montgomery[1]]

\* the witness assignment that moves one unit of digit 1 into digit 0:
\* digit 0 becomes d_0 + s_0, digit 1 becomes d_1 - 1 (for d_1 > 0) and the
\* accumulator that has folded digit 1 (the output of gate 27) is one less
Overflowed ==
  [variables EXCEPT
     ![nibbles[1]] = Small(AsInt(variables[nibbles[1]]) + AsInt(S_I(0))),
     ![nibbles[2]] = Small(AsInt(variables[nibbles[2]]) - 1),
     ![gates[27].c] = SubBytes(variables[gates[27].c], Small(1))]

\* C13: the even bound computed for each digit reaches no gate (none is
\* emitted while the digits are bound), and when decomposition_gadget has
\* returned on an input with digit 1 > 0, the assignment with digit 0 raised
\* by s_0 and digit 1 lowered by one differs from the produced one, has
\* digit 0 >= s_0 and satisfies every gate emitted, the equality to the
\* reduced input included.
RangeUnenforced ==
  /\ (pc = "decompose" /\ k > 0) =>
       /\ range % 2 = 0
       /\ range \in {AsInt(S_I(k - 1)), AsInt(S_I(k - 1)) + 1}
       /\ gates = <<>>
  /\ (pc = "s_box" /\ k = 0 /\ variables[nibbles[2]] # Zero) =>
       /\ Overflowed # variables
       /\ ~IsBelow(Overflowed[nibbles[1]], AsInt(S_I(0)))
       /\ \E i \in 1..Len(gates) : gates[i].kind = "const"
       /\ \A i \in 1..Len(gates) : GateSatisfied(gates[i], Overflowed)

\* decomposition_gadget has returned on an input whose digit 1 is not zero
RangeUnenforcedReached ==
  /\ pc = "s_box"
  /\ k = 0
  /\ variables[nibbles[2]] # Zero
  /\ range = AsInt(S_I(26)) + 1

\* C14: each s_box call of bar_gadget appends exactly one witness, which is
\* the handle it returns, leaves every earlier witness and the gates as they
\* were, and no gate has the new witness as an operand; after the last call
\* every gate stays satisfied with the new witness rebound to another value.
SBoxFrame ==
  [][pc = "s_box" =>
       /\ Len(variables') = Len(variables) + 1
       /\ SubSeq(variables', 1, Len(variables)) = variables
       /\ gates' = gates
       /\ tuple'[k + 1] = Len(variables')
       /\ \A j \in 1..27 : j # k + 1 => tuple'[j] = tuple[j]
       /\ \A i \in 1..Len(gates') :
            tuple'[k + 1]
              \notin {gates'[i].a, gates'[i].b, gates'[i].c, gates'[i].d}
       /\ k = 26 =>
            \A w \in {Zero, one} :
              \A i \in 1..Len(gates') :
                GateSatisfied(gates'[i],
                              [variables' EXCEPT ![tuple'[k + 1]] = w])]_vars

\* all 27 s_box calls have returned, on top of the gates of the
\* decomposition
SBoxFrameReached ==
  /\ pc = "fold"
  /\ k = 26
  /\ Len(gates) = 29
  /\ \A j \in 1..27 : tuple[j] > nibbles_montgomery[27]

\* the gates gs with the constant of every equality-to-constant gate blanked
Shape(gs) ==
  [i \in 1..Len(gs) |->
     IF gs[i].kind = "const" THEN [gs[i] EXCEPT !.q_c = Zero] ELSE gs[i]]

\* the kinds of the gates of one bar_gadget, in order
BarKinds ==
  [i \in 1..56 |->
     IF i \in {1, 2, 30} THEN "add" ELSE IF i = 29 THEN "const" ELSE "mul"]

\* C15: a finished bar_gadget has emitted 2 additions, 26 multiplications, 1
\* equality to a constant, 1 addition and 26 multiplications, in this order,
\* the multipliers of either fold being witnesses bound to s_25 down to s_0
\* and the constant being the negated reduced input; a second bar_gadget, on
\* any other input, has the same number of witnesses, returns the same
\* handle and has emitted the same gates with the same wiring and
\* coefficients, up to that constant.
ShapeIndependent ==
  pc = "done" =>
    /\ [i \in 1..Len(gates) |-> gates[i].kind] = BarKinds
    /\ \A j \in 0..25 :
         /\ variables[gates[3 + j].b] = from_raw(S_I(25 - j))
         /\ variables[gates[31 + j].b] = from_raw(S_I(25 - j))
    /\ gates[29].q_c = neg(reduce(variables[x]))
    /\ run = 2 =>
         /\ Shape(gates) = Shape(first.gates)
         /\ Len(variables) = Len(first.variables)
         /\ output = first.output

\* the second bar_gadget has returned, on an input of another value than the
\* first and with another public constant
ShapeIndependentReached ==
  /\ run = 2
  /\ pc = "done"
  /\ variables[x] # first.variables[2]
  /\ gates[29].q_c # first.gates[29].q_c

\* C16: every substituted digit bar_gadget has bound is below the modulus of
\* its position whenever the digit it substitutes is.
BoundPreserved ==
  \A j \in 1..SubstitutedDone :
    IsBelow(variables[nibbles[j]], AsInt(S_I(j - 1)))
      => IsBelow(reduce(variables[tuple[j]]), AsInt(S_I(j - 1)))

====
